---- MODULE Spec2Model ----
(***************************************************************************)
(* msgraph-python: NewGraphAPI (session bootstrap) and the GraphAPI        *)
(* accessors of src/msgraph_python/api.py, with the exception classes of   *)
(* src/msgraph_python/exceptions.py.                                       *)
(*                                                                         *)
(* One caller drives the module.  An action is one run of the code between *)
(* two awaits: the remote fetch that ends the segment either throws (one   *)
(* of FetchErrors) or answers.  Strings built by f-strings are sequences   *)
(* of their parts, so "the message contains the cause" is decidable.       *)
(***************************************************************************)
EXTENDS Integers, Sequences, FiniteSets, TLC

\* ---------------------------------------------------------------- bounds
MaxTeams == 2
MaxChannels == 2
MaxChats == 2
MaxEvents == 2
MaxClock == 1

VARIABLES
    environ,        \* os.environ: CLIENT_ID, TENANT_ID
    clock,          \* the hour (UTC) at which the caller runs
    pc,             \* where the caller's coroutine is suspended
    call,           \* the function being run / last run
    args,           \* its arguments
    selected_scopes, \* NewGraphAPI: the permission list it computed
    client,         \* the GraphServiceClient a connection function built
    graph_api,      \* the GraphAPI the caller holds
    response,       \* local `response` of the probe
    teams,          \* locals of the fan-out accessors
    channels,
    team_messages,
    chats,
    messages,
    i,              \* position of the outer for loop
    j,              \* position of the inner for loop
    e,              \* the exception caught by `except Exception as e`
    log,            \* the remote requests issued by the current call
    result          \* what the last call gave its caller

vars == <<environ, clock, pc, call, args, selected_scopes, client, graph_api, response, teams,
          channels, team_messages, chats, messages, i, j, e, log, result>>

locals == <<teams, channels, team_messages, chats, messages, i, j>>

\* ------------------------------------------------------------ python values
NoneVal == "None"

\* an object reference: None, or a reference to x
Null == <<>>
Ref(x) == <<x>>
Deref(r) == r[1]

\* `not x` for the values client_id / tenant_id / getenv take
Falsy(x) == x \in {NoneVal, ""}

EmptyDict == <<>>

\* d[k] = v
DictSet(d, k, v) == [x \in (DOMAIN d) \cup {k} |-> IF x = k THEN v ELSE d[x]]

\* ------------------------------------------------------------- exceptions
\* the names `from msgraph_python.exceptions import *` binds in api.py
ModuleNames == {"AuthorizationException", "RequestException"}

\* evaluating `name(msg)` in api.py's namespace: an unbound name is a NameError
NewException(name, msg) ==
    IF name \in ModuleNames
    THEN [exc |-> name, msg |-> msg]
    ELSE [exc |-> "NameError", msg |-> <<"name '", name, "' is not defined">>]

Raised(x) == [kind |-> "raise", exc |-> x.exc, msg |-> x.msg, value |-> Null]
Returned(v) == [kind |-> "return", exc |-> NoneVal, msg |-> <<>>, value |-> v]
NoResult == [kind |-> "none", exc |-> NoneVal, msg |-> <<>>, value |-> Null]

\* str(e) of what a remote fetch of the client library can throw
FetchErrors == {"timed out", "403 Forbidden"}

\* an exception of the client library, not caught by the code
LibraryError(cause) == [exc |-> "LibraryError", msg |-> <<cause>>]

\* ----------------------------------------------------------- the requests
Request(resource, team, channel, chat, filter, range) ==
    [resource |-> resource, team |-> team, channel |-> channel, chat |-> chat,
     filter |-> filter, range |-> range]

\* a request that carries no date range
NoRange == <<>>

Logged(req, ok) == [req |-> req, ok |-> ok]

\* --------------------------------------------------- what the server holds
TeamIds == 1..MaxTeams
ChannelIds == 1..MaxChannels
ChatIds == 1..MaxChats
EventIds == 1..MaxEvents

\* all orderings of all subsets of S: what a listing call can answer
Listings(S) ==
    {s \in UNION {[1..n -> S] : n \in 0..Cardinality(S)} :
        \A a, b \in DOMAIN s : a # b => s[a] # s[b]}

Team(t) == [id |-> t]
Channel(c) == [id |-> c]
Chat(c) == [id |-> c]

\* teams[team.id].channels.get()
Channels(t) ==
    [k \in 1..MaxChannels |->
        Channel(IF t % 2 = 1 THEN k ELSE MaxChannels + 1 - k)]

Message(owner, sub, k, read) == [id |-> <<owner, sub, k>>, isRead |-> read]

\* teams[team.id].channels[channel.id].messages.get()
ChannelMessages(t, c) ==
    [k \in 1..(((t + c) % 2) + 1) |-> Message(t, c, k, (t + c + k) % 2 = 0)]

\* me.chats[chat_id].messages.get()
ChatMessages(c) ==
    [k \in 1..((c % 3) + 2) |-> Message(c, 0, k, (c % 2 = 0) \/ (k % 2 = 0))]

\* the server's reading of an OData filter on a message collection
ApplyFilter(msgs, filter) ==
    IF filter = "isRead eq false"
    THEN SelectSeq(msgs, LAMBDA m : m.isRead = FALSE)
    ELSE msgs

\* me.get()
Users == {[display_name |-> d] : d \in {NoneVal, "", "Alice"}}

Event(n) == [id |-> n, start |-> (n - 1) * 20]
Events == {Event(n) : n \in EventIds}

MailMessage(n, read) == [kind |-> "message", id |-> n, isRead |-> read]
MailFolder(n) == [kind |-> "mailFolder", id |-> n, isRead |-> NoneVal]

\* me.messages.get()
MailResponses ==
    {<<>>, <<MailMessage(1, TRUE), MailMessage(2, FALSE)>>, <<MailMessage(2, FALSE)>>}

\* me.mail_folders.get()
MailFolderResponses == {<<>>, <<MailFolder(1)>>, <<MailFolder(1), MailFolder(2)>>}

\* ------------------------------------------------------------ NewGraphAPI
ScopeNames == {"mail", "calendar", "teams-chat", "teams-channel", "files"}
Identifiers == {NoneVal, "", "app"}

NoArgs == [client_id |-> NoneVal, tenant_id |-> NoneVal, interactive |-> FALSE,
           scopes |-> {}, chat_id |-> 0]

\* client_id / tenant_id after `if not x: x = os.getenv(...)`
Fallback(given, env) == IF Falsy(given) THEN env ELSE given

\* SelectedScopes with the calendar branch appending the mail permission
SelectedScopes_CalendarAsMail(scopes) ==
    <<"User.Read">>
    \o (IF "mail" \in scopes THEN <<"Mail.Read">> ELSE <<>>)
    \o (IF "calendar" \in scopes THEN <<"Mail.Read">> ELSE <<>>)
    \o (IF "teams-chat" \in scopes THEN <<"Chat.Read">> ELSE <<>>)
    \o (IF "teams-channel" \in scopes THEN <<"ChannelMessage.Read.All">> ELSE <<>>)

\* selected_scopes as lines 34-42 build it
SelectedScopes(scopes) ==
    <<"User.Read">>
    \o (IF "mail" \in scopes THEN <<"Mail.Read">> ELSE <<>>)
    \o (IF "calendar" \in scopes THEN <<"Calendars.Read">> ELSE <<>>)
    \o (IF "teams-chat" \in scopes THEN <<"Chat.Read">> ELSE <<>>)
    \o (IF "teams-channel" \in scopes THEN <<"ChannelMessage.Read.All">> ELSE <<>>)

\* the guard of line 31
InvalidParameters(client_id, tenant_id, scopes) ==
    Falsy(client_id) \/ Falsy(tenant_id) \/ scopes = {}

DeviceCodeCredential(client_id, tenant_id) ==
    [type |-> "DeviceCodeCredential", client_id |-> client_id, tenant_id |-> tenant_id]

InteractiveBrowserCredential ==
    [type |-> "InteractiveBrowserCredential", client_id |-> NoneVal, tenant_id |-> NoneVal]

GraphServiceClient(credentials, scopes) == [credentials |-> credentials, scopes |-> scopes]

GraphAPI(c) == [client |-> c]

\* the call leaves by an exception
Fail(x) ==
    /\ pc' = "idle"
    /\ result' = Raised(x)

\* the call returns v
Return(v) ==
    /\ pc' = "idle"
    /\ result' = Returned(v)

\* lines 27-48, up to the await of the connection function
NewGraphAPI(client_id, tenant_id, interactive, scopes) ==
    /\ pc = "idle"
    /\ call = NoneVal          \* the caller creates its session first, and once
    /\ call' = "NewGraphAPI"
    /\ args' = [client_id |-> client_id, tenant_id |-> tenant_id,
                interactive |-> interactive, scopes |-> scopes, chat_id |-> 0]
    /\ log' = <<>>
    /\ client' = Null
    /\ response' = Null
    /\ e' = NoneVal
    /\ LET cid == Fallback(client_id, environ.CLIENT_ID)
           tid == Fallback(tenant_id, environ.TENANT_ID)
           sel == SelectedScopes(scopes)
       IN  IF InvalidParameters(cid, tid, scopes)
           THEN /\ Fail(NewException("MicrosoftAuthorizationException",
                        <<"Invalid authentication parameters. Must provide client_id, tenant_id, and scopes.">>))
                /\ selected_scopes' = <<>>
           ELSE IF Len(sel) = 1
           THEN /\ Fail(NewException("MicrosoftAuthorizationException",
                        <<"Invalid authentication scopes. Must be 'mail' 'calendar', 'teams-chat', or 'teams-channel'.">>))
                /\ selected_scopes' = sel
           ELSE /\ selected_scopes' = sel
                /\ result' = NoResult
                /\ pc' = IF interactive THEN "interactive_browser_connection"
                                        ELSE "device_credential_connection"
    /\ UNCHANGED <<environ, clock, graph_api, locals>>

\* lines 54-59 and 66-71: the probe and what follows it; back in NewGraphAPI
\* the client is wrapped and returned (lines 47-48)
Probe(c) ==
    /\ client' = Ref(c)
    /\ \/ \E cause \in FetchErrors :
            /\ log' = Append(log, Logged(Request("me", 0, 0, 0, NoneVal, NoRange), FALSE))
            /\ response' = Null
            /\ Fail(LibraryError(cause))
            /\ UNCHANGED graph_api
       \/ /\ log' = Append(log, Logged(Request("me", 0, 0, 0, NoneVal, NoRange), TRUE))
          /\ \E r \in {Ref(u) : u \in Users} \cup {Null} :
                /\ response' = r
                /\ IF r # Null
                   THEN /\ graph_api' = Ref(GraphAPI(c))
                        /\ Return(Ref(GraphAPI(c)))
                   ELSE /\ Fail(NewException("MicrosoftAuthorizationException",
                                <<"Failed to authenticate user with the Microsoft Graph API">>))
                        /\ UNCHANGED graph_api
    /\ UNCHANGED <<environ, clock, call, args, selected_scopes, e, locals>>

device_credential_connection ==
    /\ pc = "device_credential_connection"
    /\ Probe(GraphServiceClient(
            DeviceCodeCredential(Fallback(args.client_id, environ.CLIENT_ID),
                                 Fallback(args.tenant_id, environ.TENANT_ID)),
            selected_scopes))

interactive_browser_connection ==
    /\ pc = "interactive_browser_connection"
    /\ Probe(GraphServiceClient(InteractiveBrowserCredential, selected_scopes))

\* ------------------------------------------------------- GraphAPI accessors
\* a method of the GraphAPI the caller holds is called; the frame of the
\* previous call is gone
Enter(name, a) ==
    /\ pc = "idle"
    /\ graph_api # Null
    /\ call' = name
    /\ args' = a
    /\ selected_scopes' = <<>>
    /\ client' = Null
    /\ response' = Null
    /\ UNCHANGED <<environ, clock, graph_api>>

NoLocals ==
    /\ teams' = <<>>
    /\ channels' = <<>>
    /\ team_messages' = <<>>
    /\ chats' = <<>>
    /\ messages' = EmptyDict
    /\ i' = 0
    /\ j' = 0

\* raise MicrosoftRequestException(f"{prefix}{e}")
Wrap(prefix, cause) == NewException("MicrosoftRequestException", <<prefix, cause>>)

\* Except with the handler giving back what was gathered so far
Except_ReturnsPartial(prefix, cause) ==
    /\ e' = cause
    /\ Return(messages)

\* except Exception as e: raise MicrosoftRequestException(...)
Except(prefix, cause) ==
    /\ e' = cause
    /\ Fail(Wrap(prefix, cause))

\* try: response = await <one fetch>; return response / except ...
SingleFetch(req, prefix, Responses) ==
    \/ \E cause \in FetchErrors :
        /\ log' = <<Logged(req, FALSE)>>
        /\ Except(prefix, cause)
    \/ \E r \in Responses :
        /\ log' = <<Logged(req, TRUE)>>
        /\ e' = NoneVal
        /\ Return(r)

\* lines 118-123
get_user_info ==
    /\ Enter("get_user_info", NoArgs)
    /\ NoLocals
    /\ LET req == Request("me", 0, 0, 0, NoneVal, NoRange)
           prefix == "Failed to get user info: "
       IN  \/ \E cause \in FetchErrors :
                /\ log' = <<Logged(req, FALSE)>>
                /\ Except(prefix, cause)
           \/ \E r \in {Ref(u) : u \in Users} \cup {Null} :
                /\ log' = <<Logged(req, TRUE)>>
                /\ IF r = Null
                   THEN Except(prefix, "'NoneType' object has no attribute '__dict__'")
                   ELSE /\ e' = NoneVal
                        /\ Return(Deref(r))

\* lines 191-195
get_teams_chat_messages(chat_id) ==
    /\ Enter("get_teams_chat_messages", [NoArgs EXCEPT !.chat_id = chat_id])
    /\ NoLocals
    /\ SingleFetch(Request("chat_messages", 0, 0, chat_id, NoneVal, NoRange),
                   "Failed to get chat messages: ", {ChatMessages(chat_id)})

\* lines 209-213
get_all_teams_chats ==
    /\ Enter("get_all_teams_chats", NoArgs)
    /\ NoLocals
    /\ SingleFetch(Request("chats", 0, 0, 0, NoneVal, NoRange), "Failed to get chats: ",
                   {[k \in DOMAIN l |-> Chat(l[k])] : l \in Listings(ChatIds)})

\* lines 250-254
get_outlook_emails ==
    /\ Enter("get_outlook_emails", NoArgs)
    /\ NoLocals
    /\ SingleFetch(Request("messages", 0, 0, 0, NoneVal, NoRange), "Failed to get emails: ",
                   MailResponses)

\* lines 268-272
get_unread_outlook_emails ==
    /\ Enter("get_unread_outlook_emails", NoArgs)
    /\ NoLocals
    /\ SingleFetch(Request("mail_folders", 0, 0, 0, NoneVal, NoRange), "Failed to get emails: ",
                   MailFolderResponses)

\* lines 286-290
get_all_calendar_events ==
    /\ Enter("get_all_calendar_events", NoArgs)
    /\ NoLocals
    /\ SingleFetch(Request("events", 0, 0, 0, NoneVal, NoRange),
                   "Failed to get calendar events: ", Listings(Events))

\* lines 304-308
get_todays_calendar_events ==
    /\ Enter("get_todays_calendar_events", NoArgs)
    /\ NoLocals
    /\ SingleFetch(Request("calendar_view", 0, 0, 0, NoneVal, NoRange),
                   "Failed to get todays calendar events: ", Listings(Events))

\* ----------------------------------------------------- fan-out accessors
TeamsPrefix == "Failed to get Teams messages: "
ChatsPrefix == "Failed to get chat messages: "

FanOutCalls == {"get_teams_channel_messages", "get_unread_teams_channel_messages",
                "get_all_unread_teams_chat_messages"}

\* the filter the per-channel fetch carries (line 145 against line 172)
ChannelFilter(name) ==
    IF name = "get_unread_teams_channel_messages" THEN "isRead eq false" ELSE NoneVal

\* Extend with the list assigned instead of extended
Extend_Replaces(list, more) == more

\* team_messages.extend(channel_messages)
Extend(list, more) == list \o more

\* UnreadMessages with the comparison inverted
UnreadMessages_KeepsRead(chat_messages) ==
    SelectSeq(chat_messages, LAMBDA m : m.isRead = TRUE)

\* [message for message in chat_messages if message.isRead == False]
UnreadMessages(chat_messages) == SelectSeq(chat_messages, LAMBDA m : m.isRead = FALSE)

\* lines 139-140 / 166-167: teams = await joined_teams.get(); messages = {}
JoinedTeams(name) ==
    /\ Enter(name, NoArgs)
    /\ LET req == Request("joined_teams", 0, 0, 0, NoneVal, NoRange)
       IN  \/ \E cause \in FetchErrors :
                /\ log' = <<Logged(req, FALSE)>>
                /\ Except(TeamsPrefix, cause)
                /\ NoLocals
           \/ \E l \in Listings(TeamIds) :
                /\ log' = <<Logged(req, TRUE)>>
                /\ teams' = [k \in DOMAIN l |-> Team(l[k])]
                /\ messages' = EmptyDict
                /\ i' = 1
                /\ j' = 0
                /\ channels' = <<>>
                /\ team_messages' = <<>>
                /\ chats' = <<>>
                /\ e' = NoneVal
                /\ result' = NoResult
                /\ pc' = "for_team"

get_teams_channel_messages == JoinedTeams("get_teams_channel_messages")

get_unread_teams_channel_messages == JoinedTeams("get_unread_teams_channel_messages")

\* lines 141-143 and 148 / 168-170 and 175: the head of `for team in teams`
ForTeam ==
    /\ pc = "for_team"
    /\ UNCHANGED <<environ, clock, call, args, selected_scopes, client, graph_api,
                   response, teams, chats, messages, i>>
    /\ IF i > Len(teams)
       THEN /\ Return(messages)
            /\ UNCHANGED <<channels, team_messages, j, e, log>>
       ELSE LET req == Request("channels", teams[i].id, 0, 0, NoneVal, NoRange)
            IN  /\ team_messages' = <<>>
                /\ \/ \E cause \in FetchErrors :
                        /\ log' = Append(log, Logged(req, FALSE))
                        /\ Except(TeamsPrefix, cause)
                        /\ UNCHANGED <<channels, j>>
                   \/ /\ log' = Append(log, Logged(req, TRUE))
                      /\ channels' = Channels(teams[i].id)
                      /\ j' = 1
                      /\ pc' = "for_channel"
                      /\ UNCHANGED <<e, result>>

\* lines 144-147 / 171-174: the head of `for channel in channels`
ForChannel ==
    /\ pc = "for_channel"
    /\ UNCHANGED <<environ, clock, call, args, selected_scopes, client, graph_api,
                   response, teams, channels, chats>>
    /\ IF j > Len(channels)
       THEN /\ messages' = DictSet(messages, teams[i].id, team_messages)
            /\ i' = i + 1
            /\ pc' = "for_team"
            /\ UNCHANGED <<team_messages, j, e, log, result>>
       ELSE LET t == teams[i].id
                c == channels[j].id
                req == Request("channel_messages", t, c, 0, ChannelFilter(call), NoRange)
            IN  /\ UNCHANGED <<messages, i>>
                /\ \/ \E cause \in FetchErrors :
                        /\ log' = Append(log, Logged(req, FALSE))
                        /\ Except(TeamsPrefix, cause)
                        /\ UNCHANGED <<team_messages, j>>
                   \/ /\ log' = Append(log, Logged(req, TRUE))
                      /\ team_messages' =
                            Extend(team_messages, ApplyFilter(ChannelMessages(t, c), req.filter))
                      /\ j' = j + 1
                      /\ UNCHANGED <<pc, e, result>>

\* lines 228-229: chats = await me.chats.get(); messages = {}
get_all_unread_teams_chat_messages ==
    /\ Enter("get_all_unread_teams_chat_messages", NoArgs)
    /\ LET req == Request("chats", 0, 0, 0, NoneVal, NoRange)
       IN  \/ \E cause \in FetchErrors :
                /\ log' = <<Logged(req, FALSE)>>
                /\ Except(ChatsPrefix, cause)
                /\ NoLocals
           \/ \E l \in Listings(ChatIds) :
                /\ log' = <<Logged(req, TRUE)>>
                /\ chats' = [k \in DOMAIN l |-> Chat(l[k])]
                /\ messages' = EmptyDict
                /\ i' = 1
                /\ j' = 0
                /\ teams' = <<>>
                /\ channels' = <<>>
                /\ team_messages' = <<>>
                /\ e' = NoneVal
                /\ result' = NoResult
                /\ pc' = "for_chat"

\* lines 230-234: the head of `for chat in chats`
ForChat ==
    /\ pc = "for_chat"
    /\ UNCHANGED <<environ, clock, call, args, selected_scopes, client, graph_api,
                   response, teams, channels, team_messages, chats, j>>
    /\ IF i > Len(chats)
       THEN /\ Return(messages)
            /\ UNCHANGED <<messages, i, e, log>>
       ELSE LET c == chats[i].id
                req == Request("chat_messages", 0, 0, c, NoneVal, NoRange)
            IN  \/ \E cause \in FetchErrors :
                    /\ log' = Append(log, Logged(req, FALSE))
                    /\ Except(ChatsPrefix, cause)
                    /\ UNCHANGED <<messages, i>>
                \/ /\ log' = Append(log, Logged(req, TRUE))
                   /\ messages' = DictSet(messages, c, UnreadMessages(ChatMessages(c)))
                   /\ i' = i + 1
                   /\ UNCHANGED <<pc, e, result>>

\* ---------------------------------------------------------- specifications
NoFrame ==
    /\ args = NoArgs
    /\ selected_scopes = <<>>
    /\ client = Null
    /\ response = Null
    /\ teams = <<>>
    /\ channels = <<>>
    /\ team_messages = <<>>
    /\ chats = <<>>
    /\ messages = EmptyDict
    /\ i = 0
    /\ j = 0
    /\ e = NoneVal
    /\ log = <<>>

\* before the caller's one call of NewGraphAPI (src/test/test.py, start)
SessionInit ==
    /\ environ \in [CLIENT_ID : {NoneVal, "app"}, TENANT_ID : {NoneVal, "app"}]
    /\ clock = 0
    /\ pc = "idle"
    /\ call = NoneVal
    /\ graph_api = Null
    /\ result = NoResult
    /\ NoFrame

SessionNext ==
    \/ \E client_id, tenant_id \in Identifiers, interactive \in BOOLEAN,
          scopes \in SUBSET ScopeNames :
            NewGraphAPI(client_id, tenant_id, interactive, scopes)
    \/ device_credential_connection
    \/ interactive_browser_connection

\* session creation: NewGraphAPI and the two connection functions
SessionSpec == SessionInit /\ [][SessionNext]_vars

\* the GraphAPI objects NewGraphAPI has returned to the callers of the accessors:
\* test.py's (interactive, mail and calendar) and the default one of line 15
Sessions ==
    {GraphAPI(GraphServiceClient(InteractiveBrowserCredential,
                                 SelectedScopes({"mail", "calendar"}))),
     GraphAPI(GraphServiceClient(DeviceCodeCredential("app", "app"),
                                 SelectedScopes({"mail", "calendar", "teams-chat", "teams-channel"})))}

\* NewGraphAPI has returned a GraphAPI
Init ==
    /\ environ = [CLIENT_ID |-> "app", TENANT_ID |-> "app"]
    /\ clock \in 0..MaxClock
    /\ pc = "idle"
    /\ call = "NewGraphAPI"
    /\ \E g \in Sessions :
        /\ graph_api = Ref(g)
        /\ result = Returned(Ref(g))
    /\ NoFrame

Next ==
    \/ get_user_info
    \/ get_teams_channel_messages
    \/ get_unread_teams_channel_messages
    \/ ForTeam
    \/ ForChannel
    \/ \E chat_id \in ChatIds : get_teams_chat_messages(chat_id)
    \/ get_all_teams_chats
    \/ get_all_unread_teams_chat_messages
    \/ ForChat
    \/ get_outlook_emails
    \/ get_unread_outlook_emails
    \/ get_all_calendar_events
    \/ get_todays_calendar_events

\* the accessors of a GraphAPI that session creation returned
Spec == Init /\ [][Next]_vars

\* ------------------------------------------------------------------ claims
RecognizedScopes == {"mail", "calendar", "teams-chat", "teams-channel"}

Accessors == {"get_user_info", "get_teams_channel_messages",
              "get_unread_teams_channel_messages", "get_teams_chat_messages",
              "get_all_teams_chats", "get_all_unread_teams_chat_messages",
              "get_outlook_emails", "get_unread_outlook_emails",
              "get_all_calendar_events", "get_todays_calendar_events"}

Range(seq) == {seq[k] : k \in DOMAIN seq}

\* NewGraphAPI has finished
SessionCallDone == call = "NewGraphAPI" /\ pc = "idle"

\* C1: NewGraphAPI called with an empty scope set, or one with no recognized
\* name in it, fails with AuthorizationException and constructs neither a
\* client nor a GraphAPI, whatever interactive, client_id and tenant_id are.
C1_InvalidScopesRaiseAuthorizationError ==
    (SessionCallDone /\ args.scopes \cap RecognizedScopes = {}) =>
        /\ result.kind = "raise"
        /\ result.exc = "AuthorizationException"
        /\ client = Null
        /\ graph_api = Null

\* the probe answered nothing, or a user without a display name
ProbeUnnamed ==
    \/ response = Null
    \/ Falsy(Deref(response).display_name)

\* C2: NewGraphAPI returns a GraphAPI only after the probe has answered a
\* non-empty display name; an empty answer or an empty/null display name fails
\* it with AuthorizationException and no GraphAPI reaches the caller.
C2_SessionOnlyAfterNamedProbe ==
    (SessionCallDone /\ log # <<>> /\ log[1].ok /\ ProbeUnnamed) =>
        /\ result.kind = "raise"
        /\ result.exc = "AuthorizationException"
        /\ graph_api = Null

\* C3: an accessor whose remote fetch throws raises RequestException, with
\* the original failure's message in its message; nothing else escapes.
C3_AccessorFailuresAreRequestErrors ==
    (call \in Accessors /\ pc = "idle" /\ result.kind = "raise") =>
        /\ result.exc = "RequestException"
        /\ e \in Range(result.msg)

\* C4: client_id and tenant_id are required by the device-code flow only:
\* without them (after the environment fallback) a non-interactive call fails
\* with AuthorizationException, while an interactive call with recognized
\* scopes takes the interactive flow and, its probe answered, returns a GraphAPI.
C4_IdentifiersOnlyForDeviceFlow ==
    LET missing == \/ Falsy(Fallback(args.client_id, environ.CLIENT_ID))
                   \/ Falsy(Fallback(args.tenant_id, environ.TENANT_ID))
        recognized == args.scopes # {} /\ args.scopes \subseteq RecognizedScopes
    IN  /\ (SessionCallDone /\ ~args.interactive /\ missing) =>
                (result.kind = "raise" /\ result.exc = "AuthorizationException")
        /\ (SessionCallDone /\ args.interactive /\ recognized) =>
                /\ log # <<>>
                /\ Deref(client).credentials.type = "InteractiveBrowserCredential"
                /\ (log[1].ok /\ response # Null) => result.kind = "return"

\* the fixed mapping of scope names to permissions
PermissionOf(scope) ==
    CASE scope = "mail" -> "Mail.Read"
      [] scope = "calendar" -> "Calendars.Read"
      [] scope = "teams-chat" -> "Chat.Read"
      [] scope = "teams-channel" -> "ChannelMessage.Read.All"

\* C5: for a non-empty set S of recognized scope names, the permission list the
\* client is built with is, as a set, User.Read and the image of S under the
\* fixed mapping, each permission once.
C5_PermissionListIsBaselinePlusImage ==
    (call = "NewGraphAPI" /\ client # Null
        /\ args.scopes # {} /\ args.scopes \subseteq RecognizedScopes) =>
        LET permissions == Deref(client).scopes
        IN  /\ Range(permissions) = {"User.Read"} \cup {PermissionOf(x) : x \in args.scopes}
            /\ Len(permissions) = Cardinality(Range(permissions))
            /\ graph_api # Null => Deref(graph_api).client.scopes = permissions

C5_Witness ==
    /\ call = "NewGraphAPI"
    /\ graph_api # Null
    /\ args.scopes = RecognizedScopes
    /\ Len(Deref(graph_api).client.scopes) = 5

\* C6: in the fan-out accessors a failed remote fetch fails the whole call: it
\* is the last fetch issued, the call has raised, and no mapping is returned.
C6_FanOutFailsAsUnit ==
    call \in FanOutCalls =>
        \A k \in DOMAIN log :
            ~log[k].ok =>
                /\ k = Len(log)
                /\ pc = "idle"
                /\ result.kind = "raise"

\* a team was fully fetched before the fetch that failed
C6_Witness ==
    /\ call = "get_teams_channel_messages"
    /\ log # <<>>
    /\ ~log[Len(log)].ok
    /\ DOMAIN messages # {}
    /\ result.kind = "raise"

\* C7: get_todays_calendar_events asks the server for the range [now, now+24h)
\* and returns no event outside it, whatever the client answers.
C7_TodaysEventsWithinWindow ==
    (call = "get_todays_calendar_events" /\ pc = "idle") =>
        /\ log[1].req.range = <<clock, clock + 24>>
        /\ result.kind = "return" =>
                \A k \in DOMAIN result.value :
                    /\ clock <= result.value[k].start
                    /\ result.value[k].start < clock + 24

\* C8: get_unread_outlook_emails makes one remote call, which carries an
\* unread filter, and returns unread mail messages.
C8_UnreadMailIsFilteredMessages ==
    (call = "get_unread_outlook_emails" /\ pc = "idle") =>
        /\ Len(log) = 1
        /\ log[1].req.filter = "isRead eq false"
        /\ result.kind = "return" =>
                \A k \in DOMAIN result.value :
                    /\ result.value[k].kind = "message"
                    /\ result.value[k].isRead = FALSE

RECURSIVE Concatenation(_)
Concatenation(lists) ==
    IF lists = <<>> THEN <<>> ELSE Head(lists) \o Concatenation(Tail(lists))

\* the messages of team t, channel by channel in the order of its channel listing
TeamChannelMessages(t) ==
    Concatenation([k \in DOMAIN Channels(t) |-> ChannelMessages(t, Channels(t)[k].id)])

\* C9: when every fetch succeeds, get_teams_channel_messages returns a mapping
\* whose keys are the ids of the joined teams and whose value for a team is the
\* concatenation of its channels' messages in listing order; no message of
\* another team is under a team id.
C9_TeamsMappingIsPerTeamConcatenation ==
    (call = "get_teams_channel_messages" /\ pc = "idle" /\ result.kind = "return") =>
        /\ DOMAIN result.value = {teams[k].id : k \in DOMAIN teams}
        /\ \A t \in DOMAIN result.value :
            /\ result.value[t] = TeamChannelMessages(t)
            /\ \A k \in DOMAIN result.value[t] : result.value[t][k].id[1] = t

C9_Witness ==
    /\ call = "get_teams_channel_messages"
    /\ pc = "idle"
    /\ result.kind = "return"
    /\ Cardinality(DOMAIN result.value) = 2
    /\ \A t \in DOMAIN result.value : Len(result.value[t]) >= 3

\* the positions of the unread messages of a list
UnreadPositions(full) == {k \in DOMAIN full : ~full[k].isRead}

\* sub is the unread messages of full, in the order of full
IsUnreadSubsequence(sub, full) ==
    /\ Len(sub) = Cardinality(UnreadPositions(full))
    /\ \A a \in DOMAIN sub :
        \E k \in UnreadPositions(full) :
            /\ Cardinality({x \in UnreadPositions(full) : x <= k}) = a
            /\ sub[a] = full[k]

\* C10: when every fetch succeeds, get_all_unread_teams_chat_messages returns
\* one key per chat (a chat without unread messages mapped to the empty list),
\* each mapped to the chat's unread messages in their order, after one chat
\* listing and one message fetch per chat.
C10_UnreadChatMapping ==
    (call = "get_all_unread_teams_chat_messages" /\ pc = "idle" /\ result.kind = "return") =>
        /\ DOMAIN result.value = {chats[k].id : k \in DOMAIN chats}
        /\ \A c \in DOMAIN result.value :
                IsUnreadSubsequence(result.value[c], ChatMessages(c))
        /\ Len(log) = 1 + Len(chats)
        /\ log[1].req.resource = "chats"
        /\ \A k \in DOMAIN chats :
            /\ log[k + 1].req.resource = "chat_messages"
            /\ log[k + 1].req.chat = chats[k].id

C10_Witness ==
    /\ call = "get_all_unread_teams_chat_messages"
    /\ pc = "idle"
    /\ result.kind = "return"
    /\ \E c, d \in DOMAIN result.value :
        /\ result.value[c] = <<>>
        /\ ChatMessages(c) # <<>>
        /\ Len(result.value[d]) >= 2
        /\ Len(result.value[d]) < Len(ChatMessages(d))

====
